---- MODULE Spec2Model ----
(***************************************************************************)
(* RssToMasto: the credential bootstrap and configuration lifecycle of     *)
(* src/src/masto.py (class Mastodon) and src/src/config_controller.py      *)
(* (class ConfigController).                                               *)
(*                                                                         *)
(* Python strings are sequences of one-character strings, Python values    *)
(* are tagged records, a JSON text (a file's content, a response body) is  *)
(* a sequence of tokens, and one run of the program is a process whose     *)
(* position (pc) moves between the points where it blocks: the two         *)
(* operator prompts and the two HTTP requests.                             *)
(***************************************************************************)
EXTENDS Integers, Sequences, FiniteSets, TLC

VARIABLES
    pc,            \* position of the running process
    run,           \* number of the current process (1, 2, ...)
    fsTarget,      \* what is at config_path: [kind, text]
    dirsPresent,   \* how many leading directories of dirname(config_path) exist
    pathDirs,      \* number of directory components of dirname(config_path)
    config,        \* Mastodon.config
    ret,           \* load_config's return value
    err,           \* the exception that ended the run, or "none"
    raw,           \* what the operator typed at the instance prompt
    instance,      \* create_config's local: the cleaned instance
    client_resp,   \* create_config's local: create_app's tuple
    auth_code,     \* create_config's local: the code typed by the operator
    access_token,  \* create_config's local: get_access_token's result
    resp,          \* the HTTP response the process received last
    events,        \* what this process did so far, in order
    fsAtStart,     \* fsTarget when this process started
    writes         \* number of writes of the file, over all runs

vars == <<pc, run, fsTarget, dirsPresent, pathDirs, config, ret, err, raw,
          instance, client_resp, auth_code, access_token, resp, events,
          fsAtStart, writes>>

(***************************************************************************)
(* Bounds of the model.                                                    *)
(***************************************************************************)
\* how many times the program is run, one run after the other
MaxRuns == 2
\* how many pieces an operator input of the normalisation runs is made of
MaxPieces == 4
\* the deepest dirname(config_path), in directory components
MaxDirs == 2

(***************************************************************************)
(* Python strings.                                                         *)
(***************************************************************************)
Whitespace == {" ", "\t"}

S_https == <<"h", "t", "t", "p", "s", ":", "/", "/">>
S_http == <<"h", "t", "t", "p", ":", "/", "/">>
S_slash == <<"/">>
S_apps_path == <<"/", "a", "p", "i", "/", "v", "1", "/", "a", "p", "p", "s">>
S_authorize_path == <<"/", "o", "a", "u", "t", "h", "/", "a", "u", "t", "h", "o", "r", "i", "z", "e">>
S_token_path == <<"/", "o", "a", "u", "t", "h", "/", "t", "o", "k", "e", "n">>

startswith(s, p) == Len(s) >= Len(p) /\ SubSeq(s, 1, Len(p)) = p

endswith(s, p) == Len(s) >= Len(p) /\ SubSeq(s, Len(s) - Len(p) + 1, Len(s)) = p

RECURSIVE lstrip(_)
lstrip(s) ==
    IF s # <<>> /\ Head(s) \in Whitespace THEN lstrip(Tail(s)) ELSE s

RECURSIVE rstrip(_)
rstrip(s) ==
    IF s # <<>> /\ s[Len(s)] \in Whitespace
    THEN rstrip(SubSeq(s, 1, Len(s) - 1))
    ELSE s

\* str.strip()
strip(s) == rstrip(lstrip(s))

\* a faulty variant of parse_instance: the input is not trimmed
parse_instance_no_strip(inst) ==
    LET s2 == IF startswith(inst, S_https) THEN SubSeq(inst, 9, Len(inst))
              ELSE IF startswith(inst, S_http) THEN SubSeq(inst, 8, Len(inst))
              ELSE inst
        s3 == IF endswith(s2, S_slash) THEN SubSeq(s2, 1, Len(s2) - 1) ELSE s2
    IN  S_https \o s3

\* Mastodon.parse_instance
parse_instance(inst) ==
    LET s1 == strip(inst)
        s2 == IF startswith(s1, S_https) THEN SubSeq(s1, 9, Len(s1))
              ELSE IF startswith(s1, S_http) THEN SubSeq(s1, 8, Len(s1))
              ELSE s1
        s3 == IF endswith(s2, S_slash) THEN SubSeq(s2, 1, Len(s2) - 1) ELSE s2
    IN  S_https \o s3

(***************************************************************************)
(* Python values: [t |-> type, v |-> value].  A str holds its characters,  *)
(* an int its digits, a dict a function from its keys, a list its items.   *)
(***************************************************************************)
PyStr(s) == [t |-> "str", v |-> s]
PyInt(digits) == [t |-> "int", v |-> digits]
PyNone == [t |-> "none", v |-> <<>>]
PyList(items) == [t |-> "list", v |-> items]
PyDict(f) == [t |-> "dict", v |-> f]

EmptyDict == PyDict([k \in {} |-> PyNone])

\* bool(x)
Truthy(x) ==
    CASE x.t = "str" -> x.v # <<>>
      [] x.t = "int" -> x.v # <<"0">>
      [] x.t = "none" -> FALSE
      [] x.t = "list" -> x.v # <<>>
      [] x.t = "dict" -> DOMAIN x.v # {}

\* d.get(key, default), d a dict
dict_get(d, key, default) ==
    IF key \in DOMAIN d.v THEN d.v[key] ELSE default

(***************************************************************************)
(* What a function call comes to: a returned value or a raised exception.  *)
(***************************************************************************)
Return(x) == [exc |-> "none", val |-> x]
Raise(e) == [exc |-> e, val |-> PyNone]

(***************************************************************************)
(* JSON texts.  A text is a sequence of tokens [k, name, v]: punctuation,  *)
(* an object key (name), a string (v: its characters), a number (v: its    *)
(* digits), null, or junk that no JSON grammar accepts.                    *)
(***************************************************************************)
Tok(kind) == [k |-> kind, name |-> "", v |-> <<>>]
KeyTok(key) == [k |-> "key", name |-> key, v |-> <<>>]
StrTok(s) == [k |-> "str", name |-> "", v |-> s]
NumTok(digits) == [k |-> "num", name |-> "", v |-> digits]

AtomKinds == {"str", "num", "null"}

\* the order in which the keys of a dict are written (dicts keep the order
\* of insertion; the only dict the program writes is built at masto.py:215)
KeyOrder == <<"instance", "token", "client_id", "client_secret", "access_token">>

KeysOf(f) == SelectSeq(KeyOrder, LAMBDA key : key \in DOMAIN f)

dumps_atom(x) ==
    CASE x.t = "str" -> <<StrTok(x.v)>>
      [] x.t = "int" -> <<NumTok(x.v)>>
      [] x.t = "none" -> <<Tok("null")>>

RECURSIVE dumps_items(_)
dumps_items(items) ==
    IF items = <<>> THEN <<>>
    ELSE IF Len(items) = 1 THEN dumps_atom(items[1])
    ELSE dumps_atom(items[1]) \o <<Tok(",")>> \o dumps_items(Tail(items))

dumps_value(x) ==
    IF x.t = "list"
    THEN <<Tok("[")>> \o dumps_items(x.v) \o <<Tok("]")>>
    ELSE dumps_atom(x)

RECURSIVE dumps_members(_, _)
dumps_members(f, keys) ==
    IF keys = <<>> THEN <<>>
    ELSE LET m == <<KeyTok(keys[1]), Tok(":")>> \o dumps_value(f[keys[1]])
         IN  IF Len(keys) = 1 THEN m
             ELSE m \o <<Tok(",")>> \o dumps_members(f, Tail(keys))

\* json.dump(content, file): the text written
json_dumps(x) ==
    IF x.t = "dict"
    THEN <<Tok("{")>> \o dumps_members(x.v, KeysOf(x.v)) \o <<Tok("}")>>
    ELSE dumps_value(x)

ParseFail == [ok |-> FALSE, val |-> PyNone, rest |-> <<>>]
Parsed(x, rest) == [ok |-> TRUE, val |-> x, rest |-> rest]

atom_of(tok) ==
    CASE tok.k = "str" -> PyStr(tok.v)
      [] tok.k = "num" -> PyInt(tok.v)
      [] tok.k = "null" -> PyNone

\* the items of a list, toks starting at an item
RECURSIVE parse_items(_, _)
parse_items(toks, acc) ==
    IF toks = <<>> \/ Head(toks).k \notin AtomKinds THEN ParseFail
    ELSE LET items == Append(acc, atom_of(Head(toks)))
             rest == Tail(toks)
         IN  IF rest = <<>> THEN ParseFail
             ELSE IF Head(rest).k = "]" THEN Parsed(PyList(items), Tail(rest))
             ELSE IF Head(rest).k = "," THEN parse_items(Tail(rest), items)
             ELSE ParseFail

parse_value(toks) ==
    IF toks = <<>> THEN ParseFail
    ELSE IF Head(toks).k \in AtomKinds
    THEN Parsed(atom_of(Head(toks)), Tail(toks))
    ELSE IF Head(toks).k = "["
    THEN IF Len(toks) >= 2 /\ toks[2].k = "]"
         THEN Parsed(PyList(<<>>), SubSeq(toks, 3, Len(toks)))
         ELSE parse_items(Tail(toks), <<>>)
    ELSE ParseFail

\* the members of an object, toks starting at a key; a key that comes again
\* replaces the value it had
RECURSIVE parse_members(_, _)
parse_members(toks, acc) ==
    IF Len(toks) < 3 \/ toks[1].k # "key" \/ toks[2].k # ":" THEN ParseFail
    ELSE LET val == parse_value(SubSeq(toks, 3, Len(toks)))
             f == (toks[1].name :> val.val) @@ acc
         IN  IF ~val.ok \/ val.rest = <<>> THEN ParseFail
             ELSE IF Head(val.rest).k = "}" THEN Parsed(PyDict(f), Tail(val.rest))
             ELSE IF Head(val.rest).k = "," THEN parse_members(Tail(val.rest), f)
             ELSE ParseFail

parse_object(toks) ==
    IF Len(toks) >= 2 /\ toks[2].k = "}"
    THEN Parsed(EmptyDict, SubSeq(toks, 3, Len(toks)))
    ELSE parse_members(Tail(toks), EmptyDict.v)

\* json.loads(text), json.load(file)
json_loads(text) ==
    LET r == IF text # <<>> /\ Head(text).k = "{"
             THEN parse_object(text)
             ELSE parse_value(text)
    IN  IF r.ok /\ r.rest = <<>> THEN Return(r.val) ELSE Raise("JSONDecodeError")

(***************************************************************************)
(* The class constants of Mastodon (masto.py:39-43).                       *)
(***************************************************************************)
S_client_name == PyStr(<<"R", "s", "s", "T", "o", "M", "a", "s", "t", "o">>)
S_project_url == PyStr(<<"h", "t", "t", "p", "s", ":", "/", "/", "g", "i", "t", "h", "u", "b", ".", "c", "o", "m", "/", "j", "f", "a", "b", "r", "y", "-", "n", "o", "c", "/", "R", "s", "s", "T", "o", "M", "a", "s", "t", "o">>)
S_redirect_uris == PyStr(<<"u", "r", "n", ":", "i", "e", "t", "f", ":", "w", "g", ":", "o", "a", "u", "t", "h", ":", "2", ".", "0", ":", "o", "o", "b">>)
S_scopes == PyStr(<<"r", "e", "a", "d", " ", "w", "r", "i", "t", "e", " ", "p", "u", "s", "h">>)
S_code == PyStr(<<"c", "o", "d", "e">>)
S_authorization_code == PyStr(<<"a", "u", "t", "h", "o", "r", "i", "z", "a", "t", "i", "o", "n", "_", "c", "o", "d", "e">>)

(***************************************************************************)
(* HTTP.  What requests.post comes to: a response [ok, status_code,        *)
(* content], or one of the exceptions of requests (no response: the        *)
(* request timed out, the connection failed).                              *)
(***************************************************************************)
Response(ok, status, content) ==
    [kind |-> "response", ok |-> ok, status_code |-> status, content |-> content]
NoResponse(exception) ==
    [kind |-> exception, ok |-> FALSE, status_code |-> 0, content |-> <<>>]
NoResp == [kind |-> "unset", ok |-> FALSE, status_code |-> 0, content |-> <<>>]

\* a faulty variant of create_app: the two fields are not tested
create_app_unchecked(r) ==
    IF r.kind # "response" THEN Raise(r.kind)
    ELSE IF r.ok
    THEN LET result == json_loads(r.content)
         IN  IF result.exc # "none" THEN Raise(result.exc)
             ELSE IF result.val.t # "dict" THEN Raise("AttributeError")
             ELSE Return(<<dict_get(result.val, "client_id", PyStr(<<>>)),
                           dict_get(result.val, "client_secret", PyStr(<<>>))>>)
    ELSE Raise("MastodonCommException")

\* a faulty variant of create_app: the response's status is not tested
create_app_any_status(r) ==
    IF r.kind # "response" THEN Raise(r.kind)
    ELSE LET result == json_loads(r.content)
         IN  IF result.exc # "none" THEN Raise(result.exc)
             ELSE IF result.val.t # "dict" THEN Raise("AttributeError")
             ELSE LET client_id == dict_get(result.val, "client_id", PyStr(<<>>))
                      client_secret == dict_get(result.val, "client_secret", PyStr(<<>>))
                  IN  IF ~Truthy(client_id) \/ ~Truthy(client_secret)
                      THEN Raise("MastodonCommException")
                      ELSE Return(<<client_id, client_secret>>)

\* Mastodon.create_app, from the return of requests.post on (masto.py:105-117);
\* an exception of requests.post or of json.loads, and the AttributeError of
\* result.get on a body that is no object, are caught nowhere
create_app(r) ==
    IF r.kind # "response" THEN Raise(r.kind)
    ELSE IF r.ok
    THEN LET result == json_loads(r.content)
         IN  IF result.exc # "none" THEN Raise(result.exc)
             ELSE IF result.val.t # "dict" THEN Raise("AttributeError")
             ELSE LET client_id == dict_get(result.val, "client_id", PyStr(<<>>))
                      client_secret == dict_get(result.val, "client_secret", PyStr(<<>>))
                  IN  IF ~Truthy(client_id) \/ ~Truthy(client_secret)
                      THEN Raise("MastodonCommException")
                      ELSE Return(<<client_id, client_secret>>)
    ELSE Raise("MastodonCommException")

\* a faulty variant of get_access_token: the token is not tested
get_access_token_unchecked(r) ==
    IF r.kind # "response" THEN Raise(r.kind)
    ELSE IF r.ok
    THEN LET result == json_loads(r.content)
         IN  IF result.exc # "none" THEN Raise(result.exc)
             ELSE IF result.val.t # "dict" THEN Raise("AttributeError")
             ELSE Return(dict_get(result.val, "access_token", PyStr(<<>>)))
    ELSE Raise("MastodonCommException")

\* Mastodon.get_access_token, from the return of requests.post on
\* (masto.py:177-190)
get_access_token(r) ==
    IF r.kind # "response" THEN Raise(r.kind)
    ELSE IF r.ok
    THEN LET result == json_loads(r.content)
         IN  IF result.exc # "none" THEN Raise(result.exc)
             ELSE IF result.val.t # "dict" THEN Raise("AttributeError")
             ELSE LET token == dict_get(result.val, "access_token", PyStr(<<>>))
                  IN  IF ~Truthy(token)
                      THEN Raise("MastodonCommException")
                      ELSE Return(token)
    ELSE Raise("MastodonCommException")

\* a faulty variant of validate_config: only instance is tested
validate_config_instance_only(cfg) ==
    IF cfg.t # "dict" THEN Raise("AttributeError")
    ELSE IF ~Truthy(dict_get(cfg, "instance", PyNone))
    THEN Return(FALSE)
    ELSE Return(TRUE)

\* Mastodon.validate_config
validate_config(cfg) ==
    IF cfg.t # "dict" THEN Raise("AttributeError")
    ELSE IF ~Truthy(dict_get(cfg, "instance", PyNone))
            \/ ~Truthy(dict_get(cfg, "token", PyNone))
    THEN Return(FALSE)
    ELSE Return(TRUE)

(***************************************************************************)
(* The file system at config_path.  fsTarget is what the path names:       *)
(* nothing, a directory, or a regular file and its text.  dirname(path)    *)
(* has pathDirs components ("" for a bare file name), of which the first   *)
(* dirsPresent exist.                                                      *)
(***************************************************************************)
Absent == [kind |-> "absent", text |-> <<>>]
Directory == [kind |-> "dir", text |-> <<>>]
File(text) == [kind |-> "file", text |-> text]

\* a faulty variant of isfile: a file that does not hold a valid configuration
\* counts as no file
isfile_and_valid(target) ==
    /\ target.kind = "file"
    /\ json_loads(target.text).exc = "none"
    /\ json_loads(target.text).val.t = "dict"
    /\ validate_config(json_loads(target.text).val).val

\* os.path.isfile(path)
isfile(target) == target.kind = "file"

\* ConfigController._validate_path(file_path): os.path.exists
validate_path_file(target) == target.kind # "absent"

\* ConfigController._validate_path(directory, True): os.path.isdir
validate_path_dir(dirs, present) == dirs >= 1 /\ present = dirs

\* a faulty variant of get_file_content: a content of another shape than
\* {instance, token} is refused
get_file_content_shape_checked(target) ==
    IF validate_path_file(target)
    THEN IF target.kind = "dir" THEN Raise("IsADirectoryError")
         ELSE LET got == json_loads(target.text)
              IN  IF got.exc = "none"
                     /\ (got.val.t # "dict" \/ ~validate_config(got.val).val)
                  THEN Raise("ConfigPathException")
                  ELSE got
    ELSE Raise("ConfigPathException")

\* a faulty variant of get_file_content: a text that is not JSON is reported
\* as a bad path
get_file_content_wraps_decode(target) ==
    IF validate_path_file(target)
    THEN IF target.kind = "dir" THEN Raise("IsADirectoryError")
         ELSE IF json_loads(target.text).exc = "none"
              THEN json_loads(target.text)
              ELSE Raise("ConfigPathException")
    ELSE Raise("ConfigPathException")

\* ConfigController.get_file_content
get_file_content(target) ==
    IF validate_path_file(target)
    THEN IF target.kind = "dir" THEN Raise("IsADirectoryError")
         ELSE json_loads(target.text)
    ELSE Raise("ConfigPathException")

\* os.makedirs(directory): the exception raised, if any, and how many
\* directories of dirname(path) exist after it
makedirs(dirs, present) ==
    IF dirs = 0
    THEN [exc |-> "FileNotFoundError", present |-> present]
    ELSE [exc |-> "none", present |-> dirs]

\* ConfigController.write_file_content: the exception raised, if any, and
\* the file system it leaves
write_file_content(target, dirs, present, content) ==
    LET made == IF ~validate_path_dir(dirs, present)
                THEN makedirs(dirs, present)
                ELSE [exc |-> "none", present |-> present]
    IN  IF made.exc # "none"
        THEN [exc |-> made.exc, target |-> target, present |-> made.present]
        ELSE IF target.kind = "dir"
        THEN \* open(path, "w") of a directory
             [exc |-> "IsADirectoryError", target |-> target, present |-> made.present]
        ELSE [exc |-> "none", target |-> File(json_dumps(content)),
              present |-> made.present]

(***************************************************************************)
(* The inputs: what the operator types, what the server answers, what the  *)
(* file system holds when the first run starts.                            *)
(***************************************************************************)
S_empty == <<>>
S_host == <<"a">>
S_upper_https == <<"H", "T", "T", "P", "S", ":", "/", "/">>

\* what input() comes to: a line, or EOFError on a closed standard input
Typed(text) == [eof |-> FALSE, text |-> text]
EndOfInput == [eof |-> TRUE, text |-> <<>>]

RawInputs ==
    { Typed(S_empty), Typed(S_https), Typed(S_host), Typed(S_host \o S_slash \o S_slash),
      Typed(<<" ">> \o S_http \o S_host \o S_slash \o <<" ">>), EndOfInput }

CodeInputs == { Typed(S_empty), Typed(<<"c">>), EndOfInput }

\* the values a field of a response body may have; NoField: no such field
NoField == [t |-> "absent", v |-> <<>>]

FieldValues ==
    { NoField, PyStr(<<>>), PyStr(<<"x">>), PyNone, PyInt(<<"0">>), PyInt(<<"7">>) }

JunkText == <<Tok("junk")>>
EmptyListText == <<Tok("["), Tok("]")>>

AppObject(id, secret) ==
    PyDict(  [k \in {n \in {"client_id"} : id.t # "absent"} |-> id]
          @@ [k \in {n \in {"client_secret"} : secret.t # "absent"} |-> secret])

TokenObject(token) ==
    PyDict([k \in {n \in {"access_token"} : token.t # "absent"} |-> token])

GoodAppText == json_dumps(AppObject(PyStr(<<"x">>), PyStr(<<"x">>)))
GoodTokenText == json_dumps(TokenObject(PyStr(<<"x">>)))

AppResponses ==
    { NoResponse("Timeout"), NoResponse("ConnectionError"),
      Response(FALSE, 500, JunkText), Response(FALSE, 500, GoodAppText),
      Response(TRUE, 200, JunkText), Response(TRUE, 200, EmptyListText) }
    \cup { Response(TRUE, 200, json_dumps(AppObject(id, secret))) :
             id \in FieldValues, secret \in FieldValues }

TokenResponses ==
    { NoResponse("Timeout"), NoResponse("ConnectionError"),
      Response(FALSE, 500, JunkText), Response(FALSE, 500, GoodTokenText),
      Response(TRUE, 200, JunkText), Response(TRUE, 200, EmptyListText) }
    \cup { Response(TRUE, 200, json_dumps(TokenObject(token))) :
             token \in FieldValues }

ValidConfig ==
    PyDict(("instance" :> PyStr(S_https \o S_host)) @@ ("token" :> PyStr(<<"t">>)))

InitialFiles ==
    { File(json_dumps(ValidConfig)),
      File(json_dumps(EmptyDict)),
      File(json_dumps(PyDict("instance" :> PyStr(S_https \o S_host)))),
      File(json_dumps(PyDict(("instance" :> PyStr(S_https \o S_host))
                             @@ ("token" :> PyStr(<<>>))))),
      File(EmptyListText),
      File(<<>>),
      File(<<Tok("{"), KeyTok("instance"), Tok(":")>>) }

(***************************************************************************)
(* The runs of the program.                                                *)
(***************************************************************************)
NoData == [k \in {} |-> PyNone]
Ev(name, url, data) == [ev |-> name, url |-> url, data |-> data]

\* the form of the POST to /api/v1/apps (masto.py:95-100)
AppForm ==
    ("client_name" :> S_client_name) @@ ("redirect_uris" :> S_redirect_uris)
    @@ ("scopes" :> S_scopes) @@ ("website" :> S_project_url)

\* the parameters of the authorization URL (masto.py:130-135)
AuthorizeParams(client_id) ==
    ("client_id" :> client_id) @@ ("scope" :> S_scopes)
    @@ ("redirect_uri" :> S_redirect_uris) @@ ("response_type" :> S_code)

\* the form of the POST to /oauth/token (masto.py:165-172)
TokenForm(client_id, client_secret, code) ==
    ("client_id" :> client_id) @@ ("client_secret" :> client_secret)
    @@ ("redirect_uri" :> S_redirect_uris)
    @@ ("grant_type" :> S_authorization_code)
    @@ ("code" :> code) @@ ("scope" :> S_scopes)

\* Observers of events.
\* the names of the events of the running process, in order
EventNames == [i \in DOMAIN events |-> events[i].ev]

Did(name) == \E i \in DOMAIN events : events[i].ev = name

Count(name) == Cardinality({i \in DOMAIN events : events[i].ev = name})

LastEvent == IF events = <<>> THEN "none" ELSE events[Len(events)].ev

\* a fresh process: Mastodon.__init__, and create_config's locals not yet bound
Fresh ==
    /\ pc = "start"
    /\ config = EmptyDict
    /\ ret = "unset"
    /\ err = "none"
    /\ raw = <<>>
    /\ instance = <<>>
    /\ client_resp = <<>>
    /\ auth_code = PyNone
    /\ access_token = PyNone
    /\ resp = NoResp
    /\ events = <<>>

InitFs ==
    /\ pathDirs \in 0..MaxDirs
    /\ dirsPresent \in 0..pathDirs
    /\ fsTarget \in {Absent, Directory} \cup InitialFiles
    \* what is in a directory that does not exist, does not exist
    /\ fsTarget.kind # "absent" => dirsPresent = pathDirs
    /\ fsAtStart = fsTarget
    /\ writes = 0

Init ==
    /\ Fresh
    /\ run = 1
    /\ InitFs

\* the run ends with exception e
Fails(e) ==
    /\ pc' = "failed"
    /\ err' = e

\* Mastodon.load_config: with a file at the path, all of it; without one,
\* up to create_config's input("> ")
load_config ==
    /\ pc = "start"
    /\ IF ~isfile(fsTarget)
       THEN /\ pc' = "await_instance"
            /\ events' = Append(events, Ev("prompt_instance", <<>>, NoData))
            /\ UNCHANGED <<config, ret, err>>
       ELSE LET got == get_file_content(fsTarget)
            IN  /\ events' = Append(events, Ev("read_file", <<>>, NoData))
                /\ IF got.exc = "none"
                   THEN /\ config' = got.val
                        /\ ret' = "True"
                        /\ pc' = "done"
                        /\ UNCHANGED err
                   ELSE /\ Fails(got.exc)
                        /\ UNCHANGED <<config, ret>>
    /\ UNCHANGED <<run, fsTarget, dirsPresent, pathDirs, raw, instance,
                   client_resp, auth_code, access_token, resp, fsAtStart, writes>>

\* create_config, from the return of input("> ") to create_app's
\* requests.post (masto.py:206-209, 95-103)
InstanceEntered(typed) ==
    /\ pc = "await_instance"
    /\ IF typed.eof
       THEN /\ Fails("EOFError")
            /\ UNCHANGED <<raw, instance, events>>
       ELSE /\ raw' = typed.text
            /\ instance' = parse_instance(typed.text)
            /\ events' = events \o
                 << Ev("normalize", <<>>, NoData),
                    Ev("post_apps", parse_instance(typed.text) \o S_apps_path, AppForm) >>
            /\ pc' = "await_app"
            /\ UNCHANGED err
    /\ UNCHANGED <<run, fsTarget, dirsPresent, pathDirs, config, ret,
                   client_resp, auth_code, access_token, resp, fsAtStart, writes>>

\* a faulty variant of RegistrationFailed: the operator is asked for the
\* instance again
RegistrationFailed_reprompt(e) ==
    /\ pc' = "await_instance"
    /\ events' = <<Ev("prompt_instance", <<>>, NoData)>>
    /\ UNCHANGED <<err, client_resp>>

\* a faulty variant of RegistrationFailed: the request is sent again until it
\* succeeds
RegistrationFailed_resend(e) ==
    UNCHANGED <<pc, err, client_resp, events>>

\* create_app raises e: nothing catches it, the run ends
\* (masto.py:105-115, 209)
RegistrationFailed(e) ==
    /\ Fails(e)
    /\ UNCHANGED <<client_resp, events>>

\* create_app from the return of requests.post on, then get_auth_code up
\* to input("Code: > ") (masto.py:105-117, 210, 130-145)
AppResponse(r) ==
    /\ pc = "await_app"
    /\ resp' = r
    /\ LET got == create_app(r)
       IN  IF got.exc # "none"
           THEN RegistrationFailed(got.exc)
           ELSE /\ client_resp' = got.val
                /\ events' = events \o
                     << Ev("show_url", instance \o S_authorize_path,
                           AuthorizeParams(got.val[1])),
                        Ev("prompt_code", <<>>, NoData) >>
                /\ pc' = "await_code"
                /\ UNCHANGED err
    /\ UNCHANGED <<run, fsTarget, dirsPresent, pathDirs, config, ret, raw,
                   instance, auth_code, access_token, fsAtStart, writes>>

\* get_auth_code from the return of input("Code: > "), then get_access_token
\* up to requests.post (masto.py:145-147, 211-213, 164-175)
CodeEntered(typed) ==
    /\ pc = "await_code"
    /\ IF typed.eof
       THEN /\ Fails("EOFError")
            /\ UNCHANGED <<auth_code, events>>
       ELSE /\ auth_code' = PyStr(typed.text)
            /\ events' = Append(events,
                 Ev("post_token", instance \o S_token_path,
                    TokenForm(client_resp[1], client_resp[2], PyStr(typed.text))))
            /\ pc' = "await_token"
            /\ UNCHANGED err
    /\ UNCHANGED <<run, fsTarget, dirsPresent, pathDirs, config, ret, raw,
                   instance, client_resp, access_token, resp, fsAtStart, writes>>

\* a faulty variant of config_content: the token is stored under another key
config_content_wrong_key(inst, token) ==
    PyDict(("instance" :> PyStr(inst)) @@ ("access_token" :> token))

\* a faulty variant of config_content: the client secret is kept too
config_content_keeps_secret(inst, token) ==
    PyDict(("instance" :> PyStr(inst)) @@ ("token" :> token)
           @@ ("client_secret" :> PyStr(<<"x">>)))

\* create_config's config_content (masto.py:215)
config_content(inst, token) ==
    PyDict(("instance" :> PyStr(inst)) @@ ("token" :> token))

\* a faulty variant of ExchangeFailed: a failed exchange is tried once more with
\* the same code
ExchangeFailed_retry(e) ==
    /\ IF Count("post_token") < 2
       THEN /\ events' = Append(events, events[Len(events)])
            /\ UNCHANGED <<pc, err>>
       ELSE /\ Fails(e)
            /\ UNCHANGED events
    /\ UNCHANGED <<access_token, fsTarget, dirsPresent, ret, writes>>

\* a faulty variant of ExchangeFailed: what is known so far is saved before the
\* run ends
ExchangeFailed_saves_instance(e) ==
    /\ Fails(e)
    /\ fsTarget' = IF fsTarget.kind = "dir" THEN fsTarget
                   ELSE File(json_dumps(PyDict("instance" :> PyStr(instance))))
    /\ UNCHANGED <<access_token, dirsPresent, ret, events, writes>>

\* get_access_token raises e: nothing catches it, the run ends
\* (masto.py:180-188, 211)
ExchangeFailed(e) ==
    /\ Fails(e)
    /\ UNCHANGED <<access_token, fsTarget, dirsPresent, ret, events, writes>>

\* get_access_token from the return of requests.post on, then the rest of
\* create_config and of load_config (masto.py:177-190, 215-218, 60)
TokenResponse(r) ==
    /\ pc = "await_token"
    /\ resp' = r
    /\ LET got == get_access_token(r)
       IN  IF got.exc # "none"
           THEN ExchangeFailed(got.exc)
           ELSE LET content == config_content(instance, got.val)
                    w == write_file_content(fsTarget, pathDirs, dirsPresent, content)
                IN  /\ access_token' = got.val
                    /\ fsTarget' = w.target
                    /\ dirsPresent' = w.present
                    /\ IF w.exc # "none"
                       THEN /\ Fails(w.exc)
                            /\ UNCHANGED <<ret, events, writes>>
                       ELSE /\ events' = Append(events, Ev("write_file", <<>>, content.v))
                            /\ writes' = writes + 1
                            /\ ret' = "False"
                            /\ pc' = "done"
                            /\ UNCHANGED err
    /\ UNCHANGED <<run, pathDirs, config, raw, instance, client_resp,
                   auth_code, fsAtStart>>

\* the process has ended; the program is run again on the same path
NextRun ==
    /\ pc \in {"done", "failed"}
    /\ run < MaxRuns
    /\ run' = run + 1
    /\ pc' = "start"
    /\ config' = EmptyDict
    /\ ret' = "unset"
    /\ err' = "none"
    /\ raw' = <<>>
    /\ instance' = <<>>
    /\ client_resp' = <<>>
    /\ auth_code' = PyNone
    /\ access_token' = PyNone
    /\ resp' = NoResp
    /\ events' = <<>>
    /\ fsAtStart' = fsTarget
    /\ UNCHANGED <<fsTarget, dirsPresent, pathDirs, writes>>

Next ==
    \/ load_config
    \/ \E typed \in RawInputs : InstanceEntered(typed)
    \/ \E r \in AppResponses : AppResponse(r)
    \/ \E typed \in CodeInputs : CodeEntered(typed)
    \/ \E r \in TokenResponses : TokenResponse(r)
    \/ NextRun

Spec == Init /\ [][Next]_vars

\* the steps the program takes by itself: its own code, and the return of a
\* requests.post, which has timeout=30 (masto.py:101-103, 173-175)
ProgramStep ==
    \/ load_config
    \/ \E r \in AppResponses : AppResponse(r)
    \/ \E r \in TokenResponses : TokenResponse(r)

\* the steps that wait for the operator: the return of input("> ") and of
\* input("Code: > ") (masto.py:206, 145)
OperatorStep ==
    \/ \E typed \in RawInputs : InstanceEntered(typed)
    \/ \E typed \in CodeInputs : CodeEntered(typed)

\* The runs in which the program is scheduled, every request is answered or
\* times out, and the operator answers every prompt.
SpecLive ==
    /\ Spec
    /\ WF_vars(load_config)
    /\ WF_vars(\E r \in AppResponses : AppResponse(r))
    /\ WF_vars(\E r \in TokenResponses : TokenResponse(r))
    /\ WF_vars(\E typed \in RawInputs : InstanceEntered(typed))
    /\ WF_vars(\E typed \in CodeInputs : CodeEntered(typed))

(***************************************************************************)
(* The normalisation runs: parse_instance applied to an input, and then to *)
(* its own result.                                                         *)
(***************************************************************************)
Pieces == {S_https, S_http, S_upper_https, S_slash, <<" ">>, S_host}

RECURSIVE PieceStrings(_)
PieceStrings(n) ==
    IF n = 0 THEN {<<>>}
    ELSE LET shorter == PieceStrings(n - 1)
         IN  shorter \cup {p \o x : p \in Pieces, x \in shorter}

NormInputs == PieceStrings(MaxPieces)

InitNorm ==
    /\ pc = "norm_input"
    /\ raw \in NormInputs
    /\ run = 1
    /\ config = EmptyDict
    /\ ret = "unset"
    /\ err = "none"
    /\ instance = <<>>
    /\ client_resp = <<>>
    /\ auth_code = PyNone
    /\ access_token = PyNone
    /\ resp = NoResp
    /\ events = <<>>
    /\ pathDirs = 0
    /\ dirsPresent = 0
    /\ fsTarget = Absent
    /\ fsAtStart = Absent
    /\ writes = 0

Normalize ==
    /\ pc = "norm_input"
    /\ instance' = parse_instance(raw)
    /\ pc' = "normalized"
    /\ UNCHANGED <<run, fsTarget, dirsPresent, pathDirs, config, ret, err, raw,
                   client_resp, auth_code, access_token, resp, events,
                   fsAtStart, writes>>

\* the result is given back as the input
Renormalize ==
    /\ pc = "normalized"
    /\ raw' = instance
    /\ instance' = parse_instance(instance)
    /\ pc' = "renormalized"
    /\ UNCHANGED <<run, fsTarget, dirsPresent, pathDirs, config, ret, err,
                   client_resp, auth_code, access_token, resp, events,
                   fsAtStart, writes>>

NextNorm == Normalize \/ Renormalize

SpecNorm == InitNorm /\ [][NextNorm]_vars

(***************************************************************************)
(* What the claims speak of.                                               *)
(***************************************************************************)
NetworkCalls == Count("post_apps") + Count("post_token")

Prompts == Count("prompt_instance") + Count("prompt_code")

FullBootstrap ==
    <<"prompt_instance", "normalize", "post_apps", "show_url", "prompt_code",
      "post_token", "write_file">>

\* the body of the response received last, parsed, when it is a JSON object
BodyIsObject ==
    /\ resp.kind = "response"
    /\ json_loads(resp.content).exc = "none"
    /\ json_loads(resp.content).val.t = "dict"

Body == json_loads(resp.content).val

\* field key of the body is absent, or present and empty
FieldMissingOrEmpty(key) ==
    \/ key \notin DOMAIN Body.v
    \/ ~Truthy(Body.v[key])

(***************************************************************************)
(* C1.  The configuration file is written only after registration returned *)
(* a non-empty client_id and client_secret, an authorization code was      *)
(* read and the token exchange returned a non-empty access token; the file *)
(* system at the path changes by that write only, so a run that fails      *)
(* leaves there what it found.                                             *)
(***************************************************************************)
C1_WriteOnlyAfterBootstrap ==
    /\ Did("write_file") =>
          /\ Len(client_resp) = 2
          /\ Truthy(client_resp[1]) /\ Truthy(client_resp[2])
          /\ Did("prompt_code") /\ auth_code.t = "str"
          /\ Did("post_token") /\ resp.kind = "response" /\ resp.ok
          /\ Truthy(access_token)
          /\ EventNames = FullBootstrap
    /\ fsTarget # fsAtStart => Did("write_file")
    /\ pc = "failed" => fsTarget = fsAtStart
    /\ writes > 0 => fsTarget.kind = "file"

C1_Witness ==
    /\ pc = "done"
    /\ Did("write_file")
    /\ fsAtStart = Absent
    /\ fsTarget.kind = "file"

(***************************************************************************)
(* C2.  load_config on a path with no file runs the full bootstrap, and    *)
(* when the run ends without an exception a file is at the path whose      *)
(* content, read back, passes validate_config, whatever the operator typed *)
(* as instance.                                                            *)
(***************************************************************************)
C2_BootstrapLeavesValidFile ==
    (~isfile(fsAtStart) /\ pc = "done") =>
        /\ ret = "False"
        /\ EventNames = FullBootstrap
        /\ isfile(fsTarget)
        /\ get_file_content(fsTarget).exc = "none"
        /\ validate_config(get_file_content(fsTarget).val).exc = "none"
        /\ validate_config(get_file_content(fsTarget).val).val = TRUE

C2_Witness ==
    /\ fsAtStart.kind = "absent"
    /\ pc = "done"
    /\ raw = <<>>
    /\ instance = S_https
    /\ isfile(fsTarget)

(***************************************************************************)
(* C3.  load_config on a path whose file parses as JSON makes no network   *)
(* call and no prompt, returns True and holds the parsed content as        *)
(* Mastodon.config, whatever the shape of that content; the file is left   *)
(* as it was.                                                              *)
(***************************************************************************)
C3_ExistingFileIsLoaded ==
    (isfile(fsAtStart) /\ json_loads(fsAtStart.text).exc = "none" /\ pc # "start") =>
        /\ pc = "done"
        /\ ret = "True"
        /\ err = "none"
        /\ config = json_loads(fsAtStart.text).val
        /\ NetworkCalls = 0
        /\ Prompts = 0
        /\ fsTarget = fsAtStart
        /\ (fsAtStart.text = <<Tok("{"), Tok("}")>> => config = EmptyDict)

C3_Witness ==
    /\ pc = "done"
    /\ ret = "True"
    /\ fsAtStart = File(<<Tok("{"), Tok("}")>>)
    /\ config = EmptyDict
    /\ events = <<Ev("read_file", <<>>, NoData)>>

(***************************************************************************)
(* C4.  A registration request answered by a non-success response          *)
(* (resp.ok false) ends the run with MastodonCommException, and nothing    *)
(* follows in that run: no event is added (no second registration, no      *)
(* request to /oauth/token, no prompt for a code, no write), the file      *)
(* system is left alone, and the only step from a failed run is the start  *)
(* of another process.                                                     *)
(***************************************************************************)
C4_FailedRegistrationStops ==
    [][ /\ (pc = "await_app" /\ resp'.kind = "response" /\ ~resp'.ok) =>
              /\ pc' = "failed"
              /\ err' = "MastodonCommException"
              /\ EventNames' = <<"prompt_instance", "normalize", "post_apps">>
              /\ client_resp' = <<>>
              /\ fsTarget' = fsTarget /\ dirsPresent' = dirsPresent /\ writes' = writes
        /\ pc = "failed" =>
              /\ pc' = "start" /\ run' = run + 1 /\ events' = <<>>
              /\ fsTarget' = fsTarget /\ dirsPresent' = dirsPresent /\ writes' = writes
      ]_vars

C4_Witness ==
    /\ pc = "failed"
    /\ LastEvent = "post_apps"
    /\ resp = Response(FALSE, 500, GoodAppText)
    /\ err = "MastodonCommException"

C6_OneTokenExchange ==
    /\ Count("post_token") <= 1
    /\ Count("prompt_code") <= 1
    /\ Count("post_token") <= Count("prompt_code")
    /\ Did("post_token") =>
          /\ auth_code.t = "str"
          /\ events[Len(events)].ev = "post_token" =>
                events[Len(events)].data["code"] = auth_code
    /\ (pc = "failed" /\ Did("post_token")) =>
          /\ Count("post_token") = 1
          /\ LastEvent = "post_token"

C6_Witness ==
    /\ pc = "failed"
    /\ Count("post_token") = 1
    /\ resp = Response(FALSE, 500, JunkText)
    /\ err = "MastodonCommException"

C8_TransportFailureIsCommException ==
    (pc = "failed" /\ resp.kind \in {"Timeout", "ConnectionError"}) =>
        err = "MastodonCommException"

(***************************************************************************)
(* C9.  parse_instance is idempotent: applied to its own result, it        *)
(* returns that result.                                                    *)
(***************************************************************************)
C9_Idempotent ==
    pc = "renormalized" => instance = raw

(***************************************************************************)
(* C10.  parse_instance returns "https://" followed by the input without   *)
(* its surrounding whitespace, without one leading "https://" or else one  *)
(* leading "http://" (in lower case), and without one trailing "/".        *)
(***************************************************************************)
\* x without its first n and its last m characters
Inner(x, n, m) == SubSeq(x, n + 1, Len(x) - m)

\* the whitespace x starts with: n characters
LeadingBlanks(x) ==
    CHOOSE n \in 0..Len(x) :
        /\ \A k \in 1..n : x[k] \in Whitespace
        /\ n < Len(x) => x[n + 1] \notin Whitespace

\* the whitespace x ends with: m characters (none counted twice)
TrailingBlanks(x) ==
    CHOOSE m \in 0..(Len(x) - LeadingBlanks(x)) :
        /\ \A k \in (Len(x) - m + 1)..Len(x) : x[k] \in Whitespace
        /\ m < Len(x) - LeadingBlanks(x) => x[Len(x) - m] \notin Whitespace

Begins(x, p) == \E rest \in {Inner(x, Len(p), 0)} : Len(x) >= Len(p) /\ x = p \o rest

C10_Expected(x) ==
    LET t == Inner(x, LeadingBlanks(x), TrailingBlanks(x))
        u == CASE Begins(t, S_https) -> Inner(t, 8, 0)
               [] ~Begins(t, S_https) /\ Begins(t, S_http) -> Inner(t, 7, 0)
               [] OTHER -> t
        b == IF u # <<>> /\ u[Len(u)] = "/" THEN Inner(u, 0, 1) ELSE u
    IN  S_https \o b

C10_NormalForm ==
    pc \in {"normalized", "renormalized"} =>
        /\ instance = C10_Expected(raw)
        /\ raw = S_host => instance = S_https \o S_host
        /\ raw = S_https \o S_host \o S_slash => instance = S_https \o S_host
        /\ raw = S_http \o S_host => instance = S_https \o S_host
        /\ raw = S_https => instance = S_https
        /\ raw = S_upper_https \o S_host => instance = S_https \o S_upper_https \o S_host

C10_Witness ==
    /\ pc = "normalized"
    /\ raw = <<" ">> \o S_http \o S_host \o S_slash
    /\ instance = S_https \o S_host

(***************************************************************************)
(* The validation runs: validate_config applied to a loaded configuration. *)
(***************************************************************************)
ConfigObject(inst, token, extra) ==
    PyDict(  [k \in {n \in {"instance"} : inst.t # "absent"} |-> inst]
          @@ [k \in {n \in {"token"} : token.t # "absent"} |-> token]
          @@ [k \in {n \in {"client_id"} : extra.t # "absent"} |-> extra])

ValidateInputs ==
    { ConfigObject(inst, token, extra) :
        inst \in (FieldValues \cup {PyStr(S_https \o S_host)}),
        token \in FieldValues,
        extra \in {NoField, PyStr(<<"x">>)} }
    \cup { PyList(<<>>) }

InitValidate ==
    /\ pc = "validate_input"
    /\ config \in ValidateInputs
    /\ run = 1
    /\ ret = "unset"
    /\ err = "none"
    /\ raw = <<>>
    /\ instance = <<>>
    /\ client_resp = <<>>
    /\ auth_code = PyNone
    /\ access_token = PyNone
    /\ resp = NoResp
    /\ events = <<>>
    /\ pathDirs = 0
    /\ dirsPresent = 0
    /\ fsTarget = Absent
    /\ fsAtStart = Absent
    /\ writes = 0

\* the caller's masto.validate_config(masto.config)
Validate ==
    /\ pc = "validate_input"
    /\ LET got == validate_config(config)
       IN  /\ err' = got.exc
           /\ ret' = IF got.exc # "none" THEN "unset"
                     ELSE IF got.val THEN "True" ELSE "False"
    /\ pc' = "validated"
    /\ UNCHANGED <<run, fsTarget, dirsPresent, pathDirs, config, raw, instance,
                   client_resp, auth_code, access_token, resp, events,
                   fsAtStart, writes>>

NextValidate == Validate

SpecValidate == InitValidate /\ [][NextValidate]_vars

(***************************************************************************)
(* C11.  validate_config of a mapping is True exactly when instance and    *)
(* token are both present and non-empty (the empty str, None and 0 are     *)
(* empty); a missing key, an empty value and the empty mapping give False. *)
(***************************************************************************)
C11_EmptyValues == {PyStr(<<>>), PyNone, PyInt(<<"0">>)}

C11_PresentNonEmpty(key) ==
    /\ key \in DOMAIN config.v
    /\ config.v[key] \notin C11_EmptyValues

C11_ValidateIff ==
    (pc = "validated" /\ config.t = "dict") =>
        /\ err = "none"
        /\ ret \in {"True", "False"}
        /\ ret = "True" <=> (C11_PresentNonEmpty("instance") /\ C11_PresentNonEmpty("token"))
        /\ config = EmptyDict => ret = "False"
        /\ config = PyDict("instance" :> PyStr(S_https \o S_host)) => ret = "False"
        /\ config = ValidConfig => ret = "True"

C11_Witness ==
    /\ pc = "validated"
    /\ config = PyDict("instance" :> PyStr(S_https \o S_host))
    /\ ret = "False"

(***************************************************************************)
(* The store runs: ConfigController used on its own, a write and a read of *)
(* the same path.                                                          *)
(***************************************************************************)
StoreContents ==
    { ValidConfig,
      PyDict(("instance" :> PyStr(S_https)) @@ ("token" :> PyStr(<<"x">>))),
      PyDict(("instance" :> PyStr(S_https \o S_host)) @@ ("token" :> PyInt(<<"7">>))),
      EmptyDict }

InitStore ==
    /\ pc = "store"
    /\ InitFs
    /\ run = 1
    /\ config = EmptyDict
    /\ ret = "unset"
    /\ err = "none"
    /\ raw = <<>>
    /\ instance = <<>>
    /\ client_resp = <<>>
    /\ auth_code = PyNone
    /\ access_token = PyNone
    /\ resp = NoResp
    /\ events = <<>>

\* ConfigController(path).write_file_content(content); an exception is the
\* caller's to handle
StoreWrite(content) ==
    /\ pc = "store"
    /\ LET w == write_file_content(fsTarget, pathDirs, dirsPresent, content)
       IN  /\ fsTarget' = w.target
           /\ dirsPresent' = w.present
           /\ err' = w.exc
           /\ writes' = IF w.exc = "none" THEN writes + 1 ELSE writes
           /\ events' = events \o <<Ev("write_call", <<>>, content.v)>>
                        \o (IF w.exc = "none"
                            THEN <<Ev("write_file", <<>>, content.v)>>
                            ELSE <<>>)
    /\ pc' = "written"
    /\ UNCHANGED <<run, pathDirs, config, ret, raw, instance, client_resp,
                   auth_code, access_token, resp, fsAtStart>>

\* ConfigController(path).get_file_content()
StoreRead ==
    /\ pc \in {"store", "written"}
    /\ LET got == get_file_content(fsTarget)
       IN  /\ err' = got.exc
           /\ config' = IF got.exc = "none" THEN got.val ELSE config
    /\ events' = Append(events, Ev("read_call", <<>>, NoData))
    /\ pc' = "read"
    /\ UNCHANGED <<run, fsTarget, dirsPresent, pathDirs, ret, raw, instance,
                   client_resp, auth_code, access_token, resp, fsAtStart, writes>>

NextStore ==
    \/ \E content \in StoreContents : StoreWrite(content)
    \/ StoreRead

SpecStore == InitStore /\ [][NextStore]_vars

(***************************************************************************)
(* C12.  get_file_content raises ConfigPathException whenever the path     *)
(* does not exist or is not a regular file (a directory); only an existing *)
(* regular file is parsed.                                                 *)
(***************************************************************************)
C12_ReadRefusesNonFile ==
    (pc = "read" /\ fsTarget.kind \in {"absent", "dir"}) =>
        err = "ConfigPathException"

(***************************************************************************)
(* C13.  Round trip: a valid configuration C (instance and token non-empty *)
(* strings) written to a path and read back from it is C, whatever the     *)
(* path held before (a directory apart, which no write can replace).       *)
(***************************************************************************)
C13_Written == PyDict(events[1].data)

C13_RoundTrip ==
    ( /\ pc = "read" /\ Did("write_call")
      /\ fsAtStart.kind # "dir"
      /\ DOMAIN C13_Written.v = {"instance", "token"}
      /\ \A key \in {"instance", "token"} :
            C13_Written.v[key].t = "str" /\ C13_Written.v[key].v # <<>> ) =>
        /\ err = "none"
        /\ config = C13_Written

(***************************************************************************)
(* C18.  write_file_content creates every missing directory of             *)
(* dirname(path) and then writes the file, without failing when the        *)
(* directory exists already, for every path, a bare file name (no          *)
(* directory component) included.  (A path that names a directory cannot   *)
(* be written and is left out.)                                            *)
(***************************************************************************)
C18_WriteCreatesDirs ==
    (pc = "written" /\ fsAtStart.kind # "dir") =>
        /\ err = "none"
        /\ dirsPresent = pathDirs
        /\ fsTarget = File(json_dumps(PyDict(events[1].data)))

(***************************************************************************)
(* C14.  Over the runs of the program on one path the file is written at   *)
(* most once, by the run whose bootstrap succeeds, which found no file; a  *)
(* run after that one reads the file and does nothing else; and no step of *)
(* any run changes or removes a file that is at the path.                  *)
(***************************************************************************)
C14_AfterStep ==
    /\ writes <= 1
    /\ writes = 1 => fsTarget.kind = "file"
    /\ Did("write_file") =>
          /\ fsAtStart.kind = "absent"
          /\ writes = 1
          /\ EventNames = FullBootstrap
          /\ fsTarget = File(json_dumps(PyDict(events[7].data)))
    \* a run after the one that wrote
    /\ (writes = 1 /\ ~Did("write_file") /\ pc # "start") =>
          /\ EventNames = <<"read_file">>
          /\ pc = "done" /\ ret = "True"
          /\ config = json_loads(fsTarget.text).val

C14_CreatedOnce ==
    [][ /\ C14_AfterStep'
        /\ fsTarget.kind = "file" => fsTarget' = fsTarget
        /\ writes' # writes => (writes' = writes + 1 /\ Did("write_file")')
      ]_vars

C14_Witness ==
    /\ run = 2
    /\ writes = 1
    /\ pc = "done"
    /\ ret = "True"
    /\ EventNames = <<"read_file">>

(***************************************************************************)
(* C15.  When load_config ran the bootstrap and it succeeded (it returned  *)
(* False), the configuration held by the Mastodon object is the mapping    *)
(* that was written to the file.                                           *)
(***************************************************************************)
C15_BootstrapSetsConfig ==
    (pc = "done" /\ ret = "False") =>
        /\ Did("write_file")
        /\ config = PyDict(events[Len(events)].data)
        /\ config = json_loads(fsTarget.text).val

(***************************************************************************)
(* C16.  In a run the events happen only in the order: instance prompt,    *)
(* normalization, POST to /api/v1/apps, display of the authorization URL,  *)
(* prompt for the code, POST to /oauth/token, write of the file; each at   *)
(* most once and none skipped; the run waits for the code only after the   *)
(* first five, for the token only after the first six, and is complete     *)
(* only after all seven; within a run the events only grow and the flow    *)
(* never returns to an earlier state.                                      *)
(***************************************************************************)
IsPrefix(s, t) == Len(s) <= Len(t) /\ s = SubSeq(t, 1, Len(s))

Stage(p) ==
    CASE p = "start" -> 0
      [] p = "await_instance" -> 1
      [] p = "await_app" -> 2
      [] p = "await_code" -> 3
      [] p = "await_token" -> 4
      [] p \in {"done", "failed"} -> 5

C16_InOrder ==
    /\ IsPrefix(EventNames, FullBootstrap) \/ EventNames = <<"read_file">>
    /\ pc = "await_instance" => EventNames = SubSeq(FullBootstrap, 1, 1)
    /\ pc = "await_app" => EventNames = SubSeq(FullBootstrap, 1, 3)
    /\ pc = "await_code" => EventNames = SubSeq(FullBootstrap, 1, 5)
    /\ pc = "await_token" => EventNames = SubSeq(FullBootstrap, 1, 6)
    /\ (pc = "done" /\ ret = "False") <=> EventNames = FullBootstrap

C16_BootstrapOrder ==
    [][ /\ C16_InOrder'
        /\ run' = run =>
              /\ IsPrefix(events, events')
              /\ Stage(pc') >= Stage(pc)
      ]_vars

C16_Witness ==
    /\ pc = "done"
    /\ ret = "False"
    /\ EventNames = FullBootstrap
    /\ events[3].url = S_https \o S_host \o S_apps_path

(***************************************************************************)
(* C17.  load_config on a path whose file is not valid JSON ends with an   *)
(* exception that is not ConfigPathException (json's JSONDecodeError),     *)
(* starts no bootstrap (no prompt, no network call) and leaves the file as *)
(* it was.                                                                 *)
(***************************************************************************)
C17_MalformedFileIsFatal ==
    (isfile(fsAtStart) /\ json_loads(fsAtStart.text).exc # "none" /\ pc # "start") =>
        /\ pc = "failed"
        /\ err = "JSONDecodeError"
        /\ err # "ConfigPathException"
        /\ ret = "unset"
        /\ config = EmptyDict
        /\ EventNames = <<"read_file">>
        /\ Prompts = 0
        /\ NetworkCalls = 0
        /\ writes = 0
        /\ fsTarget = fsAtStart

C17_Witness ==
    /\ pc = "failed"
    /\ fsAtStart = File(<<Tok("{"), KeyTok("instance"), Tok(":")>>)
    /\ fsTarget = fsAtStart
    /\ err = "JSONDecodeError"
    /\ events = <<Ev("read_file", <<>>, NoData)>>

(***************************************************************************)
(* C20.  After a successful bootstrap the file holds a mapping with        *)
(* exactly the keys instance and token; instance is the normalized         *)
(* operator input and the base of the URLs of the registration request,    *)
(* the authorization URL and the token exchange; token is the              *)
(* access_token answered to the exchange, which was made with this run's   *)
(* client_id and client_secret and the code the operator typed; no         *)
(* client_id, client_secret or code is in the file.                        *)
(***************************************************************************)
C20_Persisted == json_loads(fsTarget.text).val

C20_PersistedMapping ==
    (pc = "done" /\ ret = "False") =>
        /\ json_loads(fsTarget.text).exc = "none"
        /\ C20_Persisted.t = "dict"
        /\ DOMAIN C20_Persisted.v = {"instance", "token"}
        /\ C20_Persisted.v["instance"] = PyStr(parse_instance(raw))
        /\ events[3].ev = "post_apps"
        /\ events[3].url = C20_Persisted.v["instance"].v \o S_apps_path
        /\ events[4].ev = "show_url"
        /\ events[4].url = C20_Persisted.v["instance"].v \o S_authorize_path
        /\ events[6].ev = "post_token"
        /\ events[6].url = C20_Persisted.v["instance"].v \o S_token_path
        /\ BodyIsObject
        /\ C20_Persisted.v["token"] = Body.v["access_token"]
        /\ Len(client_resp) = 2
        /\ events[4].data["client_id"] = client_resp[1]
        /\ events[6].data["client_id"] = client_resp[1]
        /\ events[6].data["client_secret"] = client_resp[2]
        /\ events[6].data["code"] = auth_code
        /\ auth_code.t = "str"
        \* the file is the text of that mapping and of nothing more
        /\ fsTarget.text = json_dumps(PyDict(("instance" :> PyStr(instance))
                                             @@ ("token" :> access_token)))

C20_Witness ==
    /\ pc = "done"
    /\ ret = "False"
    /\ raw = <<" ">> \o S_http \o S_host \o S_slash \o <<" ">>
    /\ auth_code = PyStr(<<"c">>)
    /\ C20_Persisted.v["instance"] = PyStr(S_https \o S_host)
    /\ C20_Persisted.v["token"] = PyStr(<<"x">>)

(***************************************************************************)
(* C19.  A run is suspended on the operator when it has not ended and no   *)
(* step of the program itself can be taken.                                *)
(***************************************************************************)
Ended == pc \in {"done", "failed"}

WaitsForOperator == ~Ended /\ ~ENABLED ProgramStep

(***************************************************************************)
(* C19, as stated.  The wait for the authorization code is the only point  *)
(* at which a run is suspended without bound: a run that waits for the     *)
(* operator waits for the code.                                            *)
(***************************************************************************)
C19_OnlyCodeWait == WaitsForOperator => pc = "await_code"

(***************************************************************************)
(* C19, amended.  The two prompts, for the instance and for the code, are  *)
(* the only points at which a run waits for the operator; when every       *)
(* request is answered or times out and the operator answers both prompts, *)
(* every run ends; and once the code is entered the run ends with the      *)
(* answer to the token request, whatever it is.                            *)
(***************************************************************************)
C19_OnlyPromptsWait ==
    /\ [](WaitsForOperator => pc \in {"await_instance", "await_code"})
    /\ [](pc \in {"await_instance", "await_code"} => WaitsForOperator)
    /\ (pc = "start") ~> Ended
    /\ [][pc = "await_token" => Ended']_vars

C19_Witness ==
    /\ pc = "failed"
    /\ auth_code = PyStr(<<"c">>)
    /\ LastEvent = "post_token"
    /\ resp = NoResponse("Timeout")

====
